---- MODULE Spec2Model ----
(***************************************************************************)
(* Model of win-profile-delete (src/src/main.rs): the profile inventory    *)
(* built by get_user_profiles, its ordering, the keep-list and             *)
(* confirmation prompts of main, and the deletion loop.                    *)
(*                                                                         *)
(* Strings are sequences of one-character strings, so that starts_with,    *)
(* split, trim, to_lowercase, parse::<usize> and the ordering of String    *)
(* are computed character by character as the library computes them.       *)
(* An Option<T> is a sequence of length at most one: None is <<>> and      *)
(* Some(v) is <<v>>.                                                       *)
(***************************************************************************)
EXTENDS Integers, Sequences, FiniteSets, TLC

(***************************************************************************)
(* Bounds of the model.                                                    *)
(***************************************************************************)
\* The longest result of the Win32_UserProfile query in the runs of Spec.
MaxProfiles == 3
\* The longest result of the query in the runs of SpecAggregate.
MaxRecords == 2
\* The largest number of comma-separated tokens typed at the keep prompt.
MaxTokens == 3

(***************************************************************************)
(* Option<T>.                                                              *)
(***************************************************************************)
None == <<>>
Some(v) == <<v>>
IsSome(o) == Len(o) = 1
Unwrap(o) == o[1]

(***************************************************************************)
(* Characters.  Code gives the byte value that the Ord of String compares, *)
(* for the ASCII letters, digits and punctuation of the model alphabet.    *)
(***************************************************************************)
UpperCase ==
    <<"A", "B", "C", "D", "E", "F", "G", "H", "I", "J", "K", "L", "M",
      "N", "O", "P", "Q", "R", "S", "T", "U", "V", "W", "X", "Y", "Z">>
LowerCase ==
    <<"a", "b", "c", "d", "e", "f", "g", "h", "i", "j", "k", "l", "m",
      "n", "o", "p", "q", "r", "s", "t", "u", "v", "w", "x", "y", "z">>
\* The characters 43..57 in code order.
PlusToNine ==
    <<"+", ",", "-", ".", "/", "0", "1", "2", "3", "4", "5", "6", "7", "8", "9">>

IndexIn(c, seq) == CHOOSE i \in 1..Len(seq) : seq[i] = c
IsIn(c, seq) == \E i \in 1..Len(seq) : seq[i] = c
IsUpper(c) == IsIn(c, UpperCase)

Code(c) ==
    CASE c = "\t" -> 9
      [] c = "\n" -> 10
      [] c = "\r" -> 13
      [] IsIn(c, UpperCase) -> 64 + IndexIn(c, UpperCase)
      [] IsIn(c, LowerCase) -> 96 + IndexIn(c, LowerCase)
      [] c = " " -> 32
      [] IsIn(c, PlusToNine) -> 42 + IndexIn(c, PlusToNine)

Digits == <<"0", "1", "2", "3", "4", "5", "6", "7", "8", "9">>
IsDigit(c) == \E i \in 1..Len(Digits) : Digits[i] = c
DigitValue(c) == (CHOOSE i \in 1..Len(Digits) : Digits[i] = c) - 1

\* char::is_whitespace, on the characters of the model alphabet.
IsWhitespace(c) == c \in {" ", "\t", "\n", "\r"}

\* char::to_lowercase on ASCII: 'A'..'Z' map to 'a'..'z', the rest is kept.
ToLowerChar(c) == IF IsUpper(c) THEN LowerCase[IndexIn(c, UpperCase)] ELSE c

(***************************************************************************)
(* str methods used by the program.                                        *)
(***************************************************************************)
\* str::starts_with(prefix)
StartsWith(s, prefix) ==
    /\ Len(s) >= Len(prefix)
    /\ SubSeq(s, 1, Len(prefix)) = prefix

RECURSIVE TrimStart(_)
TrimStart(s) ==
    IF s # <<>> /\ IsWhitespace(Head(s)) THEN TrimStart(Tail(s)) ELSE s

RECURSIVE TrimEnd(_)
TrimEnd(s) ==
    IF s # <<>> /\ IsWhitespace(s[Len(s)])
    THEN TrimEnd(SubSeq(s, 1, Len(s) - 1))
    ELSE s

\* str::trim()
Trim(s) == TrimEnd(TrimStart(s))

\* str::to_lowercase()
ToLowercase(s) == [i \in 1..Len(s) |-> ToLowerChar(s[i])]

\* str::split(",") collected: the pieces between the commas, always at
\* least one piece (the empty string splits into one empty piece).
RECURSIVE SplitFrom(_, _, _)
SplitFrom(s, i, cur) ==
    IF i > Len(s) THEN <<cur>>
    ELSE IF s[i] = "," THEN <<cur>> \o SplitFrom(s, i + 1, <<>>)
    ELSE SplitFrom(s, i + 1, Append(cur, s[i]))

SplitComma(s) == SplitFrom(s, 1, <<>>)

(***************************************************************************)
(* str::parse::<usize>() on a 64-bit target.  The result is an Option:     *)
(* Some(value) for Ok, None for every ParseIntError.                       *)
(***************************************************************************)
\* usize::MAX = 18446744073709551615, as its decimal digits.
UsizeMaxDigits ==
    <<"1", "8", "4", "4", "6", "7", "4", "4", "0", "7",
      "3", "7", "0", "9", "5", "5", "1", "6", "1", "5">>

RECURSIVE StripZeros(_)
StripZeros(ds) == IF ds # <<>> /\ Head(ds) = "0" THEN StripZeros(Tail(ds)) ELSE ds

\* Lexicographic comparison of two digit strings of the same length.
RECURSIVE DigitsGreater(_, _)
DigitsGreater(a, b) ==
    IF a = <<>> THEN FALSE
    ELSE IF Head(a) # Head(b) THEN DigitValue(Head(a)) > DigitValue(Head(b))
    ELSE DigitsGreater(Tail(a), Tail(b))

\* The checked multiply-and-add of the digit loop overflows exactly when the
\* number exceeds usize::MAX.
Overflows(ds) ==
    LET n == StripZeros(ds) IN
    \/ Len(n) > Len(UsizeMaxDigits)
    \/ Len(n) = Len(UsizeMaxDigits) /\ DigitsGreater(n, UsizeMaxDigits)

RECURSIVE DigitsValue(_, _)
DigitsValue(ds, acc) ==
    IF ds = <<>> THEN acc ELSE DigitsValue(Tail(ds), acc * 10 + DigitValue(Head(ds)))

ParseUsize(s) ==
    IF s = <<>> THEN None
    ELSE IF Len(s) = 1 /\ Head(s) \in {"+", "-"} THEN None
    ELSE LET ds == IF Head(s) = "+" THEN Tail(s) ELSE s IN
         IF \E i \in 1..Len(ds) : ~IsDigit(ds[i]) THEN None
         ELSE IF Overflows(ds) THEN None
         ELSE Some(DigitsValue(StripZeros(ds), 0))

(***************************************************************************)
(* The ordering of String and of Option<String>.                           *)
(***************************************************************************)
\* a < b for two Strings: byte-wise lexicographic, a proper prefix first.
RECURSIVE StrLess(_, _)
StrLess(a, b) ==
    IF b = <<>> THEN FALSE
    ELSE IF a = <<>> THEN TRUE
    ELSE IF Head(a) = Head(b) THEN StrLess(Tail(a), Tail(b))
    ELSE Code(Head(a)) < Code(Head(b))

\* a < b for two Option<String>: the derived Ord puts None before every Some.
OptionLess(a, b) ==
    IF ~IsSome(b) THEN FALSE
    ELSE IF ~IsSome(a) THEN TRUE
    ELSE StrLess(Unwrap(a), Unwrap(b))

\* Option::unwrap_or_default() of an Option<String>.
UnwrapOrEmpty(o) == IF IsSome(o) THEN Unwrap(o) ELSE <<>>

\* Option::unwrap_or_default() of an Option<u64>.
UnwrapOrZero(o) == IF IsSome(o) THEN Unwrap(o) ELSE 0

(***************************************************************************)
(* The state: the environment the program reads, and the program's own     *)
(* variables.                                                              *)
(***************************************************************************)
VARIABLES
    win32_up,        \* result of the WMI query: None when it fails, Some(vec)
    accounts,        \* LookupAccountSidW: SID -> None (failure) or Some(AccountInfo)
    dir_bytes,       \* WalkDir: LocalPath -> sum of the readable entries' lengths
    stdin,           \* the lines read_line will return, in order; "Err" is an I/O error
    lines_read,      \* the number of read_line calls made
    pc,              \* position in main
    collected,       \* the Vec get_user_profiles returned (before the sort)
    user_profiles,   \* main's user_profiles
    keep,            \* main's keep
    sid_to_delete,   \* main's sid_to_delete
    to_visit,        \* the sids the deletion loop has not yet visited
    scanned,         \* the paths get_dir_size was called with
    delete_calls,    \* the calls of delete_user_profile: <<sid, succeeded>>, in order
    stdout           \* the lines printed

vars ==
    <<win32_up, accounts, dir_bytes, stdin, lines_read, pc, collected, user_profiles, keep,
      sid_to_delete, to_visit, scanned, delete_calls, stdout>>

env == <<win32_up, accounts, dir_bytes, stdin>>

\* The line the next read_line returns.
NextLine == stdin[lines_read + 1]

(***************************************************************************)
(* get_user_profiles and the functions it calls.                           *)
(***************************************************************************)
UserSidPrefix == <<"S", "-", "1", "-", "5", "-", "2", "1", "-">>

\* The two filters of get_user_profiles.
NotSpecial(up) == ~up.Special
\* The prefix test with the account-domain part "21-" left out.
HasNtAuthoritySid(up) == StartsWith(up.SID, <<"S", "-", "1", "-", "5", "-">>)

HasUserSid(up) == StartsWith(up.SID, UserSidPrefix)
PassesFilter(up) == NotSpecial(up) /\ HasUserSid(up)

\* lookup_account_by_sid(sid).ok(): the facility's answer for this sid.
lookup_account_by_sid(sid) == accounts[sid]

\* get_dir_size(path): the walk skips unreadable entries and always returns Ok.
get_dir_size(path) == Some(dir_bytes[path])

\* ProfileSize scanning whether or not the profile is loaded.
ProfileSizeAlwaysScanned(up) ==
    [size |-> get_dir_size(up.LocalPath), calls |-> {up.LocalPath}]

\* The size field: no scan for a loaded profile.  calls are the paths scanned.
ProfileSize(up) ==
    IF up.Loaded
    THEN [size |-> None, calls |-> {}]
    ELSE [size |-> get_dir_size(up.LocalPath), calls |-> {up.LocalPath}]

\* The closure of the map: one ProfileInfo from one Win32_UserProfile.
ProfileInfo(up) ==
    LET account_info == lookup_account_by_sid(up.SID) IN
    [ domain             |-> IF IsSome(account_info)
                             THEN Some(Unwrap(account_info).domain_name) ELSE None,
      username           |-> IF IsSome(account_info)
                             THEN Some(Unwrap(account_info).username) ELSE None,
      sid                |-> up.SID,
      health_status      |-> up.HealthStatus,
      roaming_configured |-> up.RoamingConfigured,
      status             |-> up.Status,
      loaded             |-> up.Loaded,
      size               |-> ProfileSize(up).size ]

Filtered(raw) == SelectSeq(raw, PassesFilter)

\* get_user_profiles leaving out the records whose account lookup failed.
get_user_profiles_resolved_only(raw) ==
    LET f == SelectSeq(Filtered(raw), LAMBDA up : IsSome(lookup_account_by_sid(up.SID)))
    IN [i \in 1..Len(f) |-> ProfileInfo(f[i])]

\* get_user_profiles on a successful query.
get_user_profiles(raw) ==
    LET f == Filtered(raw) IN [i \in 1..Len(f) |-> ProfileInfo(f[i])]

ScanCalls(raw) ==
    LET f == Filtered(raw) IN UNION {ProfileSize(f[i]).calls : i \in 1..Len(f)}

(***************************************************************************)
(* user_profiles.sort_by_key(|k| k.username.clone()): a stable sort.       *)
(***************************************************************************)
SortKey(profile) == profile.username

\* InsertByKey putting e before the elements of equal key: an unstable sort.
RECURSIVE InsertBeforeEqual(_, _)
InsertBeforeEqual(v, e) ==
    IF v = <<>> THEN <<e>>
    ELSE IF ~OptionLess(SortKey(Head(v)), SortKey(e)) THEN <<e>> \o v
    ELSE <<Head(v)>> \o InsertBeforeEqual(Tail(v), e)

\* e goes after every element whose key is not greater than its own.
RECURSIVE InsertByKey(_, _)
InsertByKey(v, e) ==
    IF v = <<>> THEN <<e>>
    ELSE IF OptionLess(SortKey(e), SortKey(Head(v))) THEN <<e>> \o v
    ELSE <<Head(v)>> \o InsertByKey(Tail(v), e)

RECURSIVE SortPrefix(_, _)
SortPrefix(v, n) ==
    IF n = 0 THEN <<>> ELSE InsertByKey(SortPrefix(v, n - 1), v[n])

sort_by_key(v) == SortPrefix(v, Len(v))

(***************************************************************************)
(* What main prints.  Every line is a record of the same shape: its text,  *)
(* and the index, the table row and the sid it shows, when it shows one.   *)
(***************************************************************************)
\* The columns of a table row, after unwrap_or_default().
Row(profile) ==
    [ sid      |-> profile.sid,
      domain   |-> UnwrapOrEmpty(profile.domain),
      username |-> UnwrapOrEmpty(profile.username),
      roaming  |-> profile.roaming_configured,
      loaded   |-> profile.loaded,
      size     |-> UnwrapOrZero(profile.size) ]

TextLine(text) == [text |-> text, key |-> None, row |-> None, sid |-> None]
InventoryLine(key, profile) ==
    [text |-> "inventory row", key |-> Some(key), row |-> Some(Row(profile)), sid |-> Some(profile.sid)]
LoadedLine(profile) ==
    [text |-> "can't be deleted, because profile is loaded", key |-> None, row |-> None,
     sid |-> Some(profile.sid)]
CandidateLine(profile) ==
    [text |-> "candidate row", key |-> None, row |-> Some(Row(profile)), sid |-> Some(profile.sid)]
ResultLine(sid, ok) ==
    [text |-> IF ok THEN "Deleted profile" ELSE "Failed to delete profile",
     key |-> None, row |-> None, sid |-> Some(sid)]

(***************************************************************************)
(* main, lines 146-150: connect, query, aggregate, sort.                   *)
(***************************************************************************)
Enumerate ==
    /\ pc = "start"
    /\ IF ~IsSome(win32_up)
       THEN /\ pc' = "failed"
            /\ UNCHANGED <<collected, user_profiles, scanned>>
       ELSE /\ collected' = get_user_profiles(Unwrap(win32_up))
            /\ user_profiles' = sort_by_key(collected')
            /\ scanned' = ScanCalls(Unwrap(win32_up))
            /\ pc' = "print_inventory"
    /\ UNCHANGED <<env, lines_read, keep, sid_to_delete, to_visit, delete_calls, stdout>>

(***************************************************************************)
(* main, lines 152-156: the inventory table, indexed from 0, and the       *)
(* prompt.                                                                 *)
(***************************************************************************)
InventoryTable(v) == [i \in 1..Len(v) |-> InventoryLine(i - 1, v[i])]

PrintInventory ==
    /\ pc = "print_inventory"
    /\ stdout' = stdout \o <<TextLine("inventory header")>> \o InventoryTable(user_profiles)
                        \o <<TextLine("Enter ID of profiles to keep: (example: 0,5,7,17)")>>
    /\ pc' = "read_keep"
    /\ UNCHANGED <<env, lines_read, collected, user_profiles, keep, sid_to_delete, to_visit,
                   scanned, delete_calls>>

(***************************************************************************)
(* main, lines 157-167: read the keep list.                                *)
(***************************************************************************)
\* KeepToken without the trim.
KeepTokenUntrimmed(s) == ParseUsize(s)

\* One piece of the split: trimmed, parsed, inserted when the parse is Ok.
KeepToken(s) == ParseUsize(Trim(s))

ParseKeep(buffer) ==
    LET pieces == SplitComma(buffer) IN
    {Unwrap(KeepToken(pieces[i])) : i \in {j \in 1..Len(pieces) : IsSome(KeepToken(pieces[j]))}}

ReadKeep ==
    /\ pc = "read_keep"
    /\ lines_read' = lines_read + 1
    /\ IF NextLine = <<"Err">>
       THEN /\ pc' = "failed"
            /\ UNCHANGED keep
       ELSE /\ keep' = ParseKeep(NextLine)
            /\ pc' = "select"
    /\ UNCHANGED <<env, collected, user_profiles, sid_to_delete, to_visit, scanned,
                   delete_calls, stdout>>

(***************************************************************************)
(* main, lines 168-181: the candidates.                                    *)
(***************************************************************************)
\* Visit without the test of profile.loaded.
VisitIgnoringLoaded(acc, key, profile, kept) ==
    IF key \in kept THEN acc
    ELSE [sids |-> acc.sids \cup {profile.sid},
          out  |-> Append(acc.out, CandidateLine(profile))]

\* Visit with the index counted from 1.
VisitOneBased(acc, key, profile, kept) ==
    IF key + 1 \in kept THEN acc
    ELSE IF profile.loaded
         THEN [sids |-> acc.sids, out |-> Append(acc.out, LoadedLine(profile))]
         ELSE [sids |-> acc.sids \cup {profile.sid},
               out  |-> Append(acc.out, CandidateLine(profile))]

\* Visit with the keep test inverted: the listed indices are the ones deleted.
VisitInverted(acc, key, profile, kept) ==
    IF key \notin kept THEN acc
    ELSE IF profile.loaded
         THEN [sids |-> acc.sids, out |-> Append(acc.out, LoadedLine(profile))]
         ELSE [sids |-> acc.sids \cup {profile.sid},
               out  |-> Append(acc.out, CandidateLine(profile))]

\* One iteration of the loop over user_profiles.enumerate(): acc holds
\* sid_to_delete and the lines printed so far.
Visit(acc, key, profile, kept) ==
    IF key \in kept THEN acc
    ELSE IF profile.loaded
         THEN [sids |-> acc.sids, out |-> Append(acc.out, LoadedLine(profile))]
         ELSE [sids |-> acc.sids \cup {profile.sid},
               out  |-> Append(acc.out, CandidateLine(profile))]

RECURSIVE VisitPrefix(_, _, _)
VisitPrefix(v, n, kept) ==
    IF n = 0 THEN [sids |-> {}, out |-> <<>>]
    ELSE Visit(VisitPrefix(v, n - 1, kept), n - 1, v[n], kept)

Select ==
    /\ pc = "select"
    /\ LET r == VisitPrefix(user_profiles, Len(user_profiles), keep) IN
       /\ sid_to_delete' = r.sids
       /\ stdout' = stdout \o <<TextLine("=== Profiles to delete ==="),
                                 TextLine("candidate header")>>
                           \o r.out
                           \o <<TextLine("Do you want to continue? (y/n)")>>
    /\ pc' = "read_confirm"
    /\ UNCHANGED <<env, lines_read, collected, user_profiles, keep, to_visit, scanned,
                   delete_calls>>

(***************************************************************************)
(* main, lines 182-184 and 193-196: the confirmation.                      *)
(***************************************************************************)
\* Confirmed without to_lowercase().
ConfirmedCaseSensitive(buffer) == Trim(buffer) = <<"y">>

Confirmed(buffer) == ToLowercase(Trim(buffer)) = <<"y">>

ReadConfirm ==
    /\ pc = "read_confirm"
    /\ lines_read' = lines_read + 1
    /\ IF NextLine = <<"Err">>
       THEN /\ pc' = "failed"
            /\ UNCHANGED <<to_visit, stdout>>
       ELSE IF Confirmed(NextLine)
       THEN /\ pc' = "deleting"
            /\ to_visit' = sid_to_delete
            /\ UNCHANGED stdout
       ELSE /\ pc' = "done"
            /\ stdout' = Append(stdout, TextLine("Aborting!"))
            /\ UNCHANGED to_visit
    /\ UNCHANGED <<env, collected, user_profiles, keep, sid_to_delete, scanned,
                   delete_calls>>

(***************************************************************************)
(* main, lines 185-192: one iteration of the loop over sid_to_delete.  A   *)
(* HashSet iterates in an arbitrary order; DeleteProfileA succeeds or      *)
(* fails.                                                                  *)
(***************************************************************************)
\* delete_user_profile(sid), given the outcome of DeleteProfileA.
delete_user_profile(sid, api_ok) == api_ok

\* DeleteStep leaving the loop at the first failure.
DeleteStepStoppingOnFailure(sid, api_ok) ==
    LET result == delete_user_profile(sid, api_ok) IN
    /\ delete_calls' = Append(delete_calls, <<sid, result>>)
    /\ stdout' = Append(stdout, ResultLine(sid, result))
    /\ to_visit' = IF result THEN to_visit \ {sid} ELSE {}

DeleteStep(sid, api_ok) ==
    LET result == delete_user_profile(sid, api_ok) IN
    /\ delete_calls' = Append(delete_calls, <<sid, result>>)
    /\ stdout' = Append(stdout, ResultLine(sid, result))
    /\ to_visit' = to_visit \ {sid}

DeleteNext ==
    /\ pc = "deleting"
    /\ to_visit # {}
    /\ \E sid \in to_visit, api_ok \in BOOLEAN : DeleteStep(sid, api_ok)
    /\ UNCHANGED <<env, lines_read, pc, collected, user_profiles, keep, sid_to_delete, scanned>>

\* The loop ends; main returns Ok(()).
Finish ==
    /\ pc = "deleting"
    /\ to_visit = {}
    /\ pc' = "done"
    /\ UNCHANGED <<env, lines_read, collected, user_profiles, keep, sid_to_delete, to_visit,
                   scanned, delete_calls, stdout>>

Next ==
    \/ Enumerate
    \/ PrintInventory
    \/ ReadKeep
    \/ Select
    \/ ReadConfirm
    \/ DeleteNext
    \/ Finish

(***************************************************************************)
(* The environments the model runs the program in.                         *)
(***************************************************************************)
\* Three user accounts, LocalSystem and the NETWORK group.
SidA == UserSidPrefix \o <<"1">>
SidB == UserSidPrefix \o <<"2">>
SidC == UserSidPrefix \o <<"3">>
SidSystem == <<"S", "-", "1", "-", "5", "-", "1", "8">>
SidNetwork == <<"S", "-", "1", "-", "5", "-", "2">>
UserSids == {SidA, SidB, SidC}
AllSids == UserSids \cup {SidSystem, SidNetwork}

\* The fields of a raw record that the program only passes through or
\* hands to the scan are fixed per sid, and differ from sid to sid.
PathOf(sid) ==
    CASE sid = SidA -> "C:/Users/a"
      [] sid = SidB -> "C:/Users/b"
      [] sid = SidC -> "C:/Users/c"
      [] sid = SidSystem -> "C:/Windows/system32/config/systemprofile"
      [] sid = SidNetwork -> "C:/Windows/ServiceProfiles/NetworkService"
AllPaths == {PathOf(sid) : sid \in AllSids}

Win32_UserProfile(sid, special, loaded) ==
    [ SID               |-> sid,
      HealthStatus      |-> Len(sid) % 4,
      RoamingConfigured |-> sid \in {SidB, SidSystem},
      Status            |-> Code(sid[Len(sid)]),
      Special           |-> special,
      LocalPath         |-> PathOf(sid),
      Loaded            |-> loaded ]

RawRecords(sids) == {Win32_UserProfile(sid, sp, ld) : sid \in sids, sp \in BOOLEAN, ld \in BOOLEAN}

\* The results of the query of at most max records; SID is the key of the
\* Win32_UserProfile class, so no two records of a result share it.
RawVecs(sids, max) ==
    UNION { { v \in [1..n -> RawRecords(sids)] :
                \A i, j \in 1..n : i # j => v[i].SID # v[j].SID }
            : n \in 0..max }

\* Two machines: a free and a loaded profile; two free profiles and a loaded
\* one, enumerated out of sid order around LocalSystem.
SmallMachine ==
    <<Win32_UserProfile(SidA, FALSE, FALSE), Win32_UserProfile(SidB, FALSE, TRUE)>>
LargeMachine ==
    <<Win32_UserProfile(SidB, FALSE, FALSE), Win32_UserProfile(SidSystem, FALSE, FALSE),
      Win32_UserProfile(SidC, FALSE, FALSE), Win32_UserProfile(SidA, FALSE, TRUE)>>

\* What LookupAccountSidW can answer for a sid.
Account(name, domain) == Some([username |-> name, domain_name |-> domain])
Unresolved == None
NoName == Account(<<>>, <<>>)
NameA == Account(<<"a">>, <<"P", "C">>)
NameB == Account(<<"B">>, <<"P", "C">>)

\* The sizes of the directory trees.
EmptyDisk == [path \in AllPaths |-> 0]
UsedDisk == [path \in AllPaths |-> 4096 * Len(path)]

\* Lines of standard input.
Line(s) == s \o <<"\n">>
IoError == <<"Err">>
EndOfFile == <<>>

RECURSIVE JoinComma(_)
JoinComma(tokens) ==
    IF tokens = <<>> THEN <<>>
    ELSE IF Len(tokens) = 1 THEN tokens[1]
    ELSE tokens[1] \o <<",">> \o JoinComma(Tail(tokens))

\* The keep lines typed from a pool of tokens: up to MaxTokens of them,
\* separated by commas, ended by the newline.
KeepLines(tokens) ==
    UNION { {Line(JoinComma(ts)) : ts \in [1..n -> tokens]} : n \in 0..MaxTokens }

TwoToThe64 ==
    <<"1", "8", "4", "4", "6", "7", "4", "4", "0", "7",
      "3", "7", "0", "9", "5", "5", "1", "6", "1", "6">>
Tokens ==
    { <<"0">>, <<" ", "2">>, <<"7", " ">>, <<"0", "1">>, <<"+", "1">>, <<"-", "1">>, <<" ", "a", "b", "c">>,
      <<"1", " ", "2">>, <<>>, TwoToThe64 }
FewKeeps == { Line(<<>>), Line(<<"0">>), Line(<<"1">>), Line(<<"0", ",", "2">>) }

Answers ==
    { Line(<<"y">>), Line(<<"Y">>), Line(<<"y", "\r">>), Line(<<" ", "Y", "\t">>), <<"y">>,
      Line(<<"n">>), Line(<<"N">>), Line(<<"y", "e", "s">>), Line(<<"y", "y">>),
      Line(<<"y", " ", "y">>), Line(<<",", "y">>), Line(<<>>), EndOfFile }
FewAnswers == { Line(<<"y">>), Line(<<"n">>) }

\* The operator types one of keeps, then one of answers; or standard input
\* fails at the first or at the second read_line.
Inputs(keeps, answers) ==
    {<<k, a>> : k \in keeps, a \in answers}
        \cup {<<IoError, Line(<<"y">>)>>, <<Line(<<>>), IoError>>}

\* One run: the query fails, or returns one of raws; every account looked
\* up answers one of outcomes.
InitWith(raws, outcomes, disks, inputs) ==
    /\ \/ win32_up = None /\ accounts = [sid \in {} |-> None]
       \/ \E raw \in raws :
            /\ win32_up = Some(raw)
            /\ LET present == {raw[i].SID : i \in 1..Len(raw)}
                   asked == {raw[i].SID : i \in {j \in 1..Len(raw) : PassesFilter(raw[j])}}
               IN \E answer \in [asked -> outcomes] :
                    accounts = [sid \in present |-> IF sid \in asked THEN answer[sid] ELSE None]
    /\ dir_bytes \in disks
    /\ stdin \in inputs
    /\ lines_read = 0
    /\ pc = "start"
    /\ collected = <<>>
    /\ user_profiles = <<>>
    /\ keep = {}
    /\ sid_to_delete = {}
    /\ to_visit = {}
    /\ scanned = {}
    /\ delete_calls = <<>>
    /\ stdout = <<>>

\* Every enumeration over the user accounts and LocalSystem, a few inputs.
Init ==
    InitWith(RawVecs(UserSids \cup {SidSystem}, MaxProfiles), {Unresolved, NameA}, {UsedDisk},
             Inputs(FewKeeps, FewAnswers))

Spec == Init /\ [][Next]_vars

\* Every enumeration and every answer of the lookup, one keep line.
InitAggregate ==
    InitWith(RawVecs(AllSids, MaxRecords), {Unresolved, NoName, NameA, NameB}, {UsedDisk},
             Inputs({Line(<<"1">>)}, FewAnswers))

SpecAggregate == InitAggregate /\ [][Next]_vars

\* One machine, every keep line, the answer yes.
InitKeep ==
    InitWith({LargeMachine}, {NameA}, {UsedDisk}, Inputs(KeepLines(Tokens), {Line(<<"y">>)}))

SpecKeep == InitKeep /\ [][Next]_vars

\* Two machines, every answer to the confirmation.
InitConfirm ==
    InitWith({SmallMachine, LargeMachine}, {NameA, NameB}, {EmptyDisk, UsedDisk},
             Inputs(FewKeeps, Answers))

SpecConfirm == InitConfirm /\ [][Next]_vars

(***************************************************************************)
(* Vocabulary of the properties.                                           *)
(***************************************************************************)
Indices(v) == 1..Len(v)
Raw == IF IsSome(win32_up) THEN Unwrap(win32_up) ELSE <<>>

\* The sids delete_user_profile has been called with, and how often.
DeletedSids == {delete_calls[i][1] : i \in Indices(delete_calls)}
CallsOf(sid) == Cardinality({i \in Indices(delete_calls) : delete_calls[i][1] = sid})

\* The lines of stdout with a given text.
LinesWith(text) == SelectSeq(stdout, LAMBDA l : l.text = text)
LoadedText == "can't be deleted, because profile is loaded"
ResultTexts == {"Deleted profile", "Failed to delete profile"}
ResultLines == SelectSeq(stdout, LAMBDA l : l.text \in ResultTexts)

\* The candidate loop has run.
Selected == pc \in {"read_confirm", "deleting", "done"} \/ (pc = "failed" /\ lines_read = 2)
\* The operator's answer was read and was affirmative: the deletion loop was entered.
Proceeded == pc = "deleting" \/ (pc = "done" /\ LinesWith("Aborting!") = <<>>)
Aborted == pc = "done" /\ LinesWith("Aborting!") # <<>>

\* The positions (from 0) of the inventory that the operator did not keep.
NotKept == {i \in Indices(user_profiles) : (i - 1) \notin keep}

(***************************************************************************)
(* C1.  An active profile is never deleted: delete_user_profile is never   *)
(* called with the sid of a record whose loaded flag is true, be it a      *)
(* record of the inventory or of the query result.                         *)
(***************************************************************************)
ActiveProfileNeverDeleted ==
    \A c \in Indices(delete_calls) :
        /\ \A i \in Indices(user_profiles) :
              user_profiles[i].sid = delete_calls[c][1] => ~user_profiles[i].loaded
        /\ \A j \in Indices(Raw) :
              Raw[j].SID = delete_calls[c][1] => ~Raw[j].Loaded

\* A run that deleted a profile while a loaded profile was not kept.
ActiveProfileSpared ==
    /\ pc = "done"
    /\ delete_calls # <<>>
    /\ \E i \in NotKept : user_profiles[i].loaded

(***************************************************************************)
(* C2.  Once the candidate loop has run, sid_to_delete is exactly the sids *)
(* of the records that are not kept and not loaded, and the "can't be      *)
(* deleted" lines name exactly the records that are not kept and loaded,   *)
(* each once, in inventory order, none of them a candidate.  Before the    *)
(* loop there is no candidate and no such line.                            *)
(***************************************************************************)
NotKeptLoaded == SelectSeq([i \in Indices(user_profiles) |->
                               [pos |-> i, profile |-> user_profiles[i]]],
                           LAMBDA e : e.pos \in NotKept /\ e.profile.loaded)

CandidateSetExact ==
    IF Selected
    THEN /\ sid_to_delete = {user_profiles[i].sid : i \in {j \in NotKept : ~user_profiles[j].loaded}}
         /\ Len(LinesWith(LoadedText)) = Len(NotKeptLoaded)
         /\ \A n \in Indices(NotKeptLoaded) :
               LinesWith(LoadedText)[n].sid = Some(NotKeptLoaded[n].profile.sid)
         /\ \A n \in Indices(LinesWith(LoadedText)) :
               Unwrap(LinesWith(LoadedText)[n].sid) \notin sid_to_delete
         /\ LET rows == LinesWith("candidate row") IN
               {Unwrap(rows[n].sid) : n \in Indices(rows)} = sid_to_delete
    ELSE /\ sid_to_delete = {}
         /\ LinesWith(LoadedText) = <<>>
         /\ LinesWith("candidate row") = <<>>

\* The loop has run over a kept record, a candidate and a loaded record.
CandidatesAndLoadedReported ==
    /\ Selected
    /\ sid_to_delete # {}
    /\ NotKeptLoaded # <<>>
    /\ \E i \in Indices(user_profiles) : (i - 1) \in keep

(***************************************************************************)
(* C4.  Deletion isolation: no sid is passed to delete_user_profile twice, *)
(* only candidates are, every call has its own result line with its own    *)
(* outcome, in the order of the calls, and when main returns after a       *)
(* confirmation every candidate has been passed exactly once, whichever    *)
(* calls failed.                                                           *)
(***************************************************************************)
DeletionIsolated ==
    /\ \A sid \in DeletedSids : CallsOf(sid) = 1 /\ sid \in sid_to_delete
    /\ Len(ResultLines) = Len(delete_calls)
    /\ \A c \in Indices(delete_calls) :
          /\ ResultLines[c].sid = Some(delete_calls[c][1])
          /\ ResultLines[c].text =
                (IF delete_calls[c][2] THEN "Deleted profile" ELSE "Failed to delete profile")
    /\ pc = "deleting" => DeletedSids \cup to_visit = sid_to_delete
    /\ (pc = "done" /\ Proceeded) => DeletedSids = sid_to_delete

\* A failed deletion followed by a successful one, and main has returned.
DeletionContinuedAfterFailure ==
    /\ pc = "done"
    /\ Len(delete_calls) >= 2
    /\ ~delete_calls[1][2]
    /\ delete_calls[2][2]

(***************************************************************************)
(* C10.  A kept profile is never deleted: delete_user_profile is never     *)
(* called with the sid of a record whose index is in the keep set.         *)
(***************************************************************************)
KeptProfileNeverDeleted ==
    \A c \in Indices(delete_calls) :
        \A i \in Indices(user_profiles) :
            user_profiles[i].sid = delete_calls[c][1] => (i - 1) \notin keep

\* A run that deleted a profile and kept another.
KeptProfileSpared ==
    /\ pc = "done"
    /\ delete_calls # <<>>
    /\ \E i \in Indices(user_profiles) :
          (i - 1) \in keep /\ ~user_profiles[i].loaded

(***************************************************************************)
(* Vocabulary of the aggregation properties.                               *)
(***************************************************************************)
\* The enumeration succeeded and get_user_profiles has returned.
Aggregated == IsSome(win32_up) /\ pc # "start"

\* The claim's own reading of "starts with S-1-5-21-".
StandardUserSid(sid) ==
    /\ Len(sid) >= 9
    /\ sid[1] = "S" /\ sid[2] = "-" /\ sid[3] = "1" /\ sid[4] = "-" /\ sid[5] = "5"
    /\ sid[6] = "-" /\ sid[7] = "2" /\ sid[8] = "1" /\ sid[9] = "-"
Excluded(up) == up.Special \/ ~StandardUserSid(up.SID)

\* The raw records that pass the inclusion filter, in enumeration order.
Included == SelectSeq(Raw, LAMBDA up : ~Excluded(up))

\* The position of the record with this sid in a vector of ProfileInfo.
PositionIn(v, sid) == CHOOSE i \in Indices(v) : v[i].sid = sid

(***************************************************************************)
(* C5.  Inclusion gate: a raw record that is special, or whose SID does    *)
(* not start with "S-1-5-21-", has no record in the inventory (before or   *)
(* after the sort), no line of output and so no index, is no candidate,    *)
(* and its sid is never passed to delete_user_profile.                     *)
(***************************************************************************)
InclusionGate ==
    \A j \in Indices(Raw) :
        Excluded(Raw[j]) =>
            /\ \A i \in Indices(collected) : collected[i].sid # Raw[j].SID
            /\ \A i \in Indices(user_profiles) : user_profiles[i].sid # Raw[j].SID
            /\ \A n \in Indices(stdout) : stdout[n].sid # Some(Raw[j].SID)
            /\ Raw[j].SID \notin sid_to_delete
            /\ Raw[j].SID \notin DeletedSids

\* A run that deleted a profile while the query had returned a record with
\* a foreign SID or a special record.
ExcludedRecordPassedOver ==
    /\ pc = "done"
    /\ delete_calls # <<>>
    /\ \E j \in Indices(Raw) : Excluded(Raw[j])

(***************************************************************************)
(* C6.  A loaded profile has no size: in the vector get_user_profiles      *)
(* returned, in the sorted inventory and in every table row printed, and   *)
(* get_dir_size is never called with the path of a loaded profile.         *)
(***************************************************************************)
LoadedHasNoSize ==
    /\ \A i \in Indices(collected) : collected[i].loaded => collected[i].size = None
    /\ \A i \in Indices(user_profiles) : user_profiles[i].loaded => user_profiles[i].size = None
    /\ \A n \in Indices(stdout) :
          (IsSome(stdout[n].row) /\ Unwrap(stdout[n].row).loaded) => Unwrap(stdout[n].row).size = 0
    /\ \A j \in Indices(Raw) : Raw[j].Loaded => Raw[j].LocalPath \notin scanned

\* An inventory with a loaded profile and a scanned one, after both tables.
LoadedBesideScanned ==
    /\ pc = "done"
    /\ \E i \in Indices(user_profiles) : user_profiles[i].loaded
    /\ \E i \in Indices(user_profiles) : IsSome(user_profiles[i].size)
    /\ scanned # {}

(***************************************************************************)
(* C7 as claimed.  The inventory is ordered non-decreasingly by username   *)
(* with an absent username read as the empty string, and two records whose *)
(* usernames are equal under that reading (an absent and an empty one      *)
(* too) stand in their enumeration order.                                  *)
(***************************************************************************)
Placeholder(profile) == UnwrapOrEmpty(profile.username)

SortedByPlaceholder ==
    \A i, j \in Indices(user_profiles) :
        i < j => ~StrLess(Placeholder(user_profiles[j]), Placeholder(user_profiles[i]))

StableUnderPlaceholder ==
    Aggregated =>
        /\ SortedByPlaceholder
        /\ \A i, j \in Indices(user_profiles) :
              (i < j /\ Placeholder(user_profiles[i]) = Placeholder(user_profiles[j]))
                  => PositionIn(collected, user_profiles[i].sid)
                        < PositionIn(collected, user_profiles[j].sid)

(***************************************************************************)
(* C7 as amended.  The inventory holds the records get_user_profiles       *)
(* returned, ordered non-decreasingly by username with an absent username  *)
(* read as the empty string; a record with an absent username stands       *)
(* before every record with a resolved one, the empty one too; and two     *)
(* records with the same username, both absent or both the same string,    *)
(* stand in their enumeration order.                                       *)
(***************************************************************************)
StableUnderOptionOrder ==
    Aggregated =>
        /\ Len(user_profiles) = Len(collected)
        /\ {user_profiles[i] : i \in Indices(user_profiles)} = {collected[i] : i \in Indices(collected)}
        /\ SortedByPlaceholder
        /\ \A i, j \in Indices(user_profiles) :
              (IsSome(user_profiles[i].username) /\ ~IsSome(user_profiles[j].username)) => j < i
        /\ \A i, j \in Indices(user_profiles) :
              (i < j /\ user_profiles[i].username = user_profiles[j].username)
                  => PositionIn(collected, user_profiles[i].sid)
                        < PositionIn(collected, user_profiles[j].sid)

\* The query returned an empty-named account before an unresolved one, and
\* the sort has moved the unresolved one to the front.
AbsentMovedBeforeEmpty ==
    /\ Aggregated
    /\ Len(collected) = 2
    /\ collected[1].username = Some(<<>>)
    /\ collected[2].username = None
    /\ user_profiles[1].username = None

(***************************************************************************)
(* C9.  Enrichment failures are absorbed: when the query succeeds the run  *)
(* does not fail in the aggregation, and the vector returned holds one     *)
(* record per raw record that passes the filter, in order, each with the   *)
(* sid, health_status, roaming_configured, status and loaded of its own    *)
(* raw record, the domain and username its own lookup gave (both absent    *)
(* when it failed) and the size of its own scan, whatever the lookups of   *)
(* the other records gave.                                                 *)
(***************************************************************************)
EnrichmentAbsorbed ==
    Aggregated =>
        /\ pc = "failed" => lines_read >= 1
        /\ Len(collected) = Len(Included)
        /\ \A i \in Indices(Included) :
              LET up == Included[i]
                  p == collected[i]
              IN /\ i \in Indices(collected)
                 /\ p.sid = up.SID
                 /\ p.health_status = up.HealthStatus
                 /\ p.roaming_configured = up.RoamingConfigured
                 /\ p.status = up.Status
                 /\ p.loaded = up.Loaded
                 /\ IF accounts[up.SID] = None
                    THEN p.domain = None /\ p.username = None
                    ELSE /\ p.domain = Some(Unwrap(accounts[up.SID]).domain_name)
                         /\ p.username = Some(Unwrap(accounts[up.SID]).username)
                 /\ p.size = IF up.Loaded THEN None ELSE Some(dir_bytes[up.LocalPath])

\* Two records, the lookup of the first failed and that of the second did not.
FailedLookupBesideResolved ==
    /\ Aggregated
    /\ Len(collected) = 2
    /\ collected[1].username = None
    /\ IsSome(collected[2].username)
    /\ pc = "done"

(***************************************************************************)
(* Vocabulary of the input properties.                                     *)
(***************************************************************************)
KeepLine == stdin[1]
AnswerLine == stdin[2]

\* read_line has returned the keep line, and the answer.
KeepRead == lines_read >= 1 /\ KeepLine # IoError
AnswerRead == lines_read = 2 /\ KeepLine # IoError /\ AnswerLine # IoError

\* What the operator typed: the line without its terminator.
LineContent(line) ==
    LET n == Len(line) IN
    IF n >= 2 /\ line[n - 1] = "\r" /\ line[n] = "\n" THEN SubSeq(line, 1, n - 2)
    ELSE IF n >= 1 /\ line[n] = "\n" THEN SubSeq(line, 1, n - 1)
    ELSE line

(***************************************************************************)
(* C3 as claimed.  The confirmation input "Y", in either case, proceeds to *)
(* the deletion loop; every other input aborts with no call of             *)
(* delete_user_profile; and there is no call before the confirmation.      *)
(***************************************************************************)
ConfirmationGateExact ==
    /\ pc \notin {"deleting", "done"} => delete_calls = <<>>
    /\ AnswerRead =>
          IF LineContent(AnswerLine) \in {<<"y">>, <<"Y">>}
          THEN Proceeded
          ELSE Aborted /\ delete_calls = <<>>

(***************************************************************************)
(* C3 as amended.  The confirmation input that is "Y", in either case,     *)
(* once the whitespace around it is set aside, proceeds to the deletion    *)
(* loop over the candidates; every other input (the empty one too) aborts  *)
(* with no call of delete_user_profile; and there is no call before the    *)
(* confirmation.                                                           *)
(***************************************************************************)
\* One y or Y, and around it nothing but whitespace.
Affirmative(line) ==
    \E i \in Indices(line) :
        /\ line[i] \in {"y", "Y"}
        /\ \A j \in Indices(line) \ {i} : IsWhitespace(line[j])

ConfirmationGateTrimmed ==
    /\ pc \notin {"deleting", "done"} => delete_calls = <<>>
    /\ AnswerRead =>
          IF Affirmative(AnswerLine)
          THEN /\ Proceeded
               /\ DeletedSids \cup to_visit = sid_to_delete
          ELSE /\ Aborted
               /\ delete_calls = <<>>
               /\ to_visit = {}

\* An answer padded with whitespace was taken for a yes, and a profile deleted.
PaddedAnswerProceeded ==
    /\ pc = "done"
    /\ delete_calls # <<>>
    /\ LineContent(AnswerLine) \notin {<<"y">>, <<"Y">>}

(***************************************************************************)
(* C8.  Keep-list parsing: the keep set is exactly the set of values of    *)
(* the comma-separated pieces of the line that, with the whitespace around *)
(* them set aside, are a non-negative integer that parse::<usize> accepts  *)
(* (digits, an optional + before them, a value within usize); every other  *)
(* piece is dropped and the run does not fail; and the candidates are      *)
(* those of the kept indices that are positions of the inventory.          *)
(***************************************************************************)
\* The pieces of a line: the maximal comma-free stretches <<first, last>>.
\* A piece starts at the start of the line or after a comma, and ends before
\* the next comma or at the end of the line.
Pieces(line) ==
    LET commas == {k \in Indices(line) : line[k] = ","}
        ends == commas \cup {Len(line) + 1}
    IN { <<first, (CHOOSE e \in ends : e >= first /\ \A f \in ends : f >= first => e <= f) - 1>> :
            first \in {1} \cup {k + 1 : k \in commas} }

\* A piece without the whitespace around it.
Inked(line, t) == {k \in t[1]..t[2] : ~IsWhitespace(line[k])}
Core(line, t) ==
    IF Inked(line, t) = {} THEN <<>>
    ELSE SubSeq(line,
                CHOOSE a \in Inked(line, t) : \A k \in Inked(line, t) : a <= k,
                CHOOSE b \in Inked(line, t) : \A k \in Inked(line, t) : b >= k)

Numeral(core) == IF core # <<>> /\ core[1] = "+" THEN Tail(core) ELSE core

IsNonNegativeInteger(core) ==
    /\ Numeral(core) # <<>>
    /\ \A k \in Indices(Numeral(core)) : Numeral(core)[k] \in {Digits[d] : d \in Indices(Digits)}
    /\ ~Overflows(Numeral(core))

RECURSIVE Decimal(_)
Decimal(ds) ==
    IF ds = <<>> THEN 0
    ELSE 10 * Decimal(SubSeq(ds, 1, Len(ds) - 1)) + DigitValue(ds[Len(ds)])

TypedKeepSet(line) ==
    { Decimal(Numeral(Core(line, t))) :
        t \in {u \in Pieces(line) : IsNonNegativeInteger(Core(line, u))} }

KeepListParsed ==
    /\ KeepRead =>
          /\ keep = TypedKeepSet(KeepLine)
          /\ pc = "failed" => AnswerLine = IoError
    /\ Selected =>
          LET positions == TypedKeepSet(KeepLine) \cap {i - 1 : i \in Indices(user_profiles)}
          IN sid_to_delete =
                { user_profiles[i].sid :
                    i \in {j \in Indices(user_profiles) :
                              (j - 1) \notin positions /\ ~user_profiles[j].loaded} }

\* The operator typed "0, abc, 2" for an inventory of three profiles.
MalformedTokenIgnored ==
    /\ KeepLine = Line(<<"0", ",", " ", "a", "b", "c", ",", " ", "2">>)
    /\ Len(user_profiles) = 3
    /\ keep = {0, 2}
    /\ Selected
    /\ Cardinality(sid_to_delete) = 1

====
